---- MODULE Spec2Model ----
(***************************************************************************)
(* A model of ai_wargame.py: the board game (units, combat, legality and   *)
(* application of actions, win detection), the successor generator, the    *)
(* heuristics, the iterative-deepening minimax / alpha-beta search with    *)
(* its wall-clock cutoff, and the main game loop that drives them.         *)
(***************************************************************************)
EXTENDS Integers, Sequences, FiniteSets, TLC

VARIABLES
    board,            \* Game.board: cell -> unit or NoUnit
    next_player,      \* Game.next_player
    turns_played,     \* Game.turns_played
    attacker_has_ai,  \* Game._attacker_has_ai
    defender_has_ai,  \* Game._defender_has_ai
    options,          \* Game.options (fixed for the game)
    stats,            \* Game.stats
    is_time_out,      \* Game.is_time_out
    current_depth,    \* Game.current_depth
    pc,               \* position of main(): "check", "turn", "done", "exit", "raised"
    winner,           \* main's local `winner`
    last_result,      \* the (success, description) perform_move returned last
    suggestion,       \* what the last suggest_move did
    steps,            \* number of turns explored since Init
    call,             \* a function called on its own: its name and arguments
    ret,              \* whether that call has returned, and its value
    broker,           \* the data the game broker at options.broker holds
    polled            \* the broker's last response to a poll, and its outcome

vars == <<board, next_player, turns_played, attacker_has_ai, defender_has_ai,
          options, stats, is_time_out, current_depth, pc, winner, last_result,
          suggestion, steps, call, ret, broker, polled>>

gamevars == <<board, next_player, turns_played, attacker_has_ai, defender_has_ai>>

----------------------------------------------------------------------------
(* Program constants *)

MAX_HEURISTIC_SCORE == 2000000000
MIN_HEURISTIC_SCORE == -2000000000

dim == 5
max_turns == 100

(* Bounds of the model *)
\* the moves read or suggested in one run
MaxSteps == 1
\* the largest max_depth of the options
MaxDepth == 2
\* the largest heuristic selector of the options (3 selects none of e0, e1, e2)
MaxHeuristic == 3
\* the most time checks a clock that runs out allows
MaxClock == 9
\* the polls of the broker and the moves suggested in one run of broker play
MaxPolls == 3

Attacker == "Attacker"
Defender == "Defender"
Player == {Attacker, Defender}

AI == "AI"
Tech == "Tech"
Virus == "Virus"
Program == "Program"
Firewall == "Firewall"
UnitType == {AI, Tech, Virus, Program, Firewall}

\* UnitType.value, the index into the tables
TypeValue(t) ==
    CASE t = AI -> 0 [] t = Tech -> 1 [] t = Virus -> 2
      [] t = Program -> 3 [] t = Firewall -> 4

\* Player.next
PlayerNext(p) == IF p = Attacker THEN Defender ELSE Attacker

\* None, for a cell without unit
NoUnit == [player |-> "None", type |-> "None", health |-> 0]

Unit(p, t, h) == [player |-> p, type |-> t, health |-> h]

damage_table ==
    << <<3, 3, 3, 3, 1>>,
       <<1, 1, 6, 1, 1>>,
       <<9, 6, 1, 6, 1>>,
       <<3, 3, 3, 3, 1>>,
       <<1, 1, 1, 1, 1>> >>

repair_table ==
    << <<0, 1, 1, 0, 0>>,
       <<3, 0, 0, 3, 3>>,
       <<0, 0, 0, 0, 0>>,
       <<0, 0, 0, 0, 0>>,
       <<0, 0, 0, 0, 0>> >>

\* Unit.is_alive
is_alive(u) == u.health > 0

\* Unit.mod_health
unit_mod_health(u, health_delta) ==
    LET h == u.health + health_delta
    IN  [u EXCEPT !.health = IF h < 0 THEN 0 ELSE IF h > 9 THEN 9 ELSE h]

\* Unit.damage_amount returning the entry of the table whatever the health
damage_amount_table(u, target) ==
    damage_table[TypeValue(u.type) + 1][TypeValue(target.type) + 1]

\* Unit.damage_amount
damage_amount(u, target) ==
    LET amount == damage_table[TypeValue(u.type) + 1][TypeValue(target.type) + 1]
    IN  IF target.health - amount < 0 THEN target.health ELSE amount

\* Unit.repair_amount
repair_amount(u, target) ==
    LET amount == repair_table[TypeValue(u.type) + 1][TypeValue(target.type) + 1]
    IN  IF target.health + amount > 9 THEN 9 - target.health ELSE amount

----------------------------------------------------------------------------
(* Coordinates *)

Coord(r, c) == [row |-> r, col |-> c]

\* Coord.iter_range
iter_range(coord, dist) ==
    LET w == 2 * dist + 1
    IN  [i \in 1..(w * w) |->
            Coord(coord.row - dist + ((i - 1) \div w),
                  coord.col - dist + ((i - 1) % w))]

\* Coord.iter_adjacent
iter_adjacent(coord) ==
    << Coord(coord.row - 1, coord.col),
       Coord(coord.row, coord.col - 1),
       Coord(coord.row + 1, coord.col),
       Coord(coord.row, coord.col + 1) >>

CoordPair(s, d) == [src |-> s, dst |-> d]

(* Text is a sequence of characters. *)

\* "ABCDEFGHIJKLMNOPQRSTUVWXYZ", the characters of the rows
RowChars ==
    << "A", "B", "C", "D", "E", "F", "G", "H", "I", "J", "K", "L", "M",
       "N", "O", "P", "Q", "R", "S", "T", "U", "V", "W", "X", "Y", "Z" >>

\* "0123456789abcdef", the characters of the columns
ColChars ==
    << "0", "1", "2", "3", "4", "5", "6", "7", "8", "9", "a", "b", "c", "d", "e", "f" >>

\* the lower-case letters, in the order of RowChars
LowerChars ==
    << "a", "b", "c", "d", "e", "f", "g", "h", "i", "j", "k", "l", "m",
       "n", "o", "p", "q", "r", "s", "t", "u", "v", "w", "x", "y", "z" >>

\* " ,.:;-_", the separators from_string removes
Separators == {" ", ",", ".", ":", ";", "-", "_"}

\* str.upper and str.lower of one character
Upper(ch) ==
    IF \E i \in 1..Len(LowerChars) : LowerChars[i] = ch
    THEN RowChars[CHOOSE i \in 1..Len(LowerChars) : LowerChars[i] = ch]
    ELSE ch

Lower(ch) ==
    IF \E i \in 1..Len(RowChars) : RowChars[i] = ch
    THEN LowerChars[CHOOSE i \in 1..Len(RowChars) : RowChars[i] = ch]
    ELSE ch

\* chars.find(ch): the index from 0 of a character of chars, -1 when absent
Find(chars, ch) ==
    IF \E i \in 1..Len(chars) : chars[i] = ch
    THEN (CHOOSE i \in 1..Len(chars) : chars[i] = ch) - 1
    ELSE -1

\* chars[i] of Python: from the end for a negative i, IndexError past either end
Index(chars, i) ==
    IF i >= 0 /\ i < Len(chars) THEN chars[i + 1]
    ELSE IF i < 0 /\ i >= -Len(chars) THEN chars[Len(chars) + i + 1]
    ELSE "IndexError"

\* s.strip(): without the blanks at either end
RECURSIVE strip(_)
strip(s) ==
    IF s # <<>> /\ s[1] = " " THEN strip(Tail(s))
    ELSE IF s # <<>> /\ s[Len(s)] = " " THEN strip(SubSeq(s, 1, Len(s) - 1))
    ELSE s

\* the loop `for sep in " ,.:;-_": s = s.replace(sep, "")`
IsNoSeparator(ch) == ch \notin Separators
remove_separators(s) == SelectSeq(s, IsNoSeparator)

\* Coord.col_string, Coord.row_string
col_string(coord) ==
    IF coord.col < Len(ColChars) THEN Index(ColChars, coord.col) ELSE "?"

row_string(coord) ==
    IF coord.row < Len(RowChars) THEN Index(RowChars, coord.row) ELSE "?"

\* Coord.to_string
coord_to_string(coord) == <<row_string(coord), col_string(coord)>>

\* what from_string returns: None, or the object it made
None == <<>>
Some(x) == <<x>>

\* Coord.from_string with the column character in upper case as well
coord_from_string_upper(s) ==
    LET t == remove_separators(strip(s))
    IN  IF Len(t) = 2
        THEN Some(Coord(Find(RowChars, Upper(t[1])), Find(ColChars, Upper(t[2]))))
        ELSE None

\* Coord.from_string
coord_from_string(s) ==
    LET t == remove_separators(strip(s))
    IN  IF Len(t) = 2
        THEN Some(Coord(Find(RowChars, Upper(t[1])), Find(ColChars, Lower(t[2]))))
        ELSE None

\* CoordPair.to_string
pair_to_string(coords) ==
    coord_to_string(coords.src) \o <<" ">> \o coord_to_string(coords.dst)

\* CoordPair.from_string
pair_from_string(s) ==
    LET t == remove_separators(strip(s))
    IN  IF Len(t) = 4
        THEN Some(CoordPair(Coord(Find(RowChars, Upper(t[1])), Find(ColChars, Lower(t[2]))),
                            Coord(Find(RowChars, Upper(t[3])), Find(ColChars, Lower(t[4])))))
        ELSE None

\* CoordPair.from_dim(dim).iter_rectangle(): the cells in board scan order
iter_rectangle ==
    [i \in 1..(dim * dim) |-> Coord((i - 1) \div dim, (i - 1) % dim)]

Cells == {iter_rectangle[i] : i \in 1..(dim * dim)}

SeqToSet(s) == {s[i] : i \in 1..Len(s)}

----------------------------------------------------------------------------
(* Game state.  A game g is a record of Game's fields that clone() copies   *)
(* per node: board, next_player, turns_played and the two has-AI flags.     *)

\* Game.is_valid_coord
is_valid_coord(coord) ==
    ~(coord.row < 0 \/ coord.row >= dim \/ coord.col < 0 \/ coord.col >= dim)

\* Game.get
get(g, coord) == IF is_valid_coord(coord) THEN g.board[coord] ELSE NoUnit

\* Game.set
set(g, coord, unit) ==
    IF is_valid_coord(coord)
    THEN [g EXCEPT !.board = [g.board EXCEPT ![coord] = unit]]
    ELSE g

\* remove_dead with the bookkeeping of the AI forgotten: the unit leaves the
\* board and the flags stay as they were
remove_dead_keep_flag(g, coord) ==
    LET unit == get(g, coord)
    IN  IF unit # NoUnit /\ ~is_alive(unit) THEN set(g, coord, NoUnit) ELSE g

\* Game.remove_dead
remove_dead(g, coord) ==
    LET unit == get(g, coord)
    IN  IF unit # NoUnit /\ ~is_alive(unit)
        THEN LET g1 == set(g, coord, NoUnit)
             IN  IF unit.type = AI
                 THEN IF unit.player = Attacker
                      THEN [g1 EXCEPT !.attacker_has_ai = FALSE]
                      ELSE [g1 EXCEPT !.defender_has_ai = FALSE]
                 ELSE g1
        ELSE g

\* mod_health without the call of remove_dead
mod_health_keeps_dead(g, coord, health_delta) ==
    LET target == get(g, coord)
    IN  IF target # NoUnit
        THEN set(g, coord, unit_mod_health(target, health_delta))
        ELSE g

\* Game.mod_health
mod_health(g, coord, health_delta) ==
    LET target == get(g, coord)
    IN  IF target # NoUnit
        THEN remove_dead(set(g, coord, unit_mod_health(target, health_delta)), coord)
        ELSE g

LockedTypes == {AI, Firewall, Program}

\* is_valid_move without the tests of direction
is_valid_move_any_direction(g, coords) ==
    LET unit == get(g, coords.src)
        adj  == iter_adjacent(coords.src)
    IN  /\ is_valid_coord(coords.src) /\ is_valid_coord(coords.dst)
        /\ ~(unit = NoUnit \/ unit.player # g.next_player)
        /\ get(g, coords.dst) = NoUnit
        /\ ~(\E i \in 1..4 :
                /\ unit.type \in LockedTypes
                /\ get(g, adj[i]) # NoUnit
                /\ get(g, adj[i]).player # unit.player)
        /\ \E i \in 1..4 : coords.dst = adj[i]

\* is_valid_move without the test of engagement in combat
is_valid_move_disengaged(g, coords) ==
    LET unit == get(g, coords.src)
        adj  == iter_adjacent(coords.src)
    IN  /\ is_valid_coord(coords.src) /\ is_valid_coord(coords.dst)
        /\ ~(unit = NoUnit \/ unit.player # g.next_player)
        /\ get(g, coords.dst) = NoUnit
        /\ ~(/\ unit.player = Attacker
             /\ unit.type \in LockedTypes
             /\ (coords.dst.row > coords.src.row \/ coords.dst.col > coords.src.col))
        /\ ~(/\ unit.player = Defender
             /\ unit.type \in LockedTypes
             /\ (coords.dst.row < coords.src.row \/ coords.dst.col < coords.src.col))
        /\ \E i \in 1..4 : coords.dst = adj[i]

\* Game.is_valid_move
is_valid_move(g, coords) ==
    LET unit == get(g, coords.src)
        adj  == iter_adjacent(coords.src)
    IN  /\ is_valid_coord(coords.src) /\ is_valid_coord(coords.dst)
        /\ ~(unit = NoUnit \/ unit.player # g.next_player)
        /\ get(g, coords.dst) = NoUnit
        /\ ~(/\ unit.player = Attacker
             /\ unit.type \in LockedTypes
             /\ (coords.dst.row > coords.src.row \/ coords.dst.col > coords.src.col))
        /\ ~(/\ unit.player = Defender
             /\ unit.type \in LockedTypes
             /\ (coords.dst.row < coords.src.row \/ coords.dst.col < coords.src.col))
        /\ ~(\E i \in 1..4 :
                /\ unit.type \in LockedTypes
                /\ get(g, adj[i]) # NoUnit
                /\ get(g, adj[i]).player # unit.player)
        /\ \E i \in 1..4 : coords.dst = adj[i]

\* Game.is_valid_attack
is_valid_attack(g, coords) ==
    LET unit_s == get(g, coords.src)
        unit_t == get(g, coords.dst)
        adj    == iter_adjacent(coords.src)
    IN  /\ is_valid_coord(coords.src) /\ is_valid_coord(coords.dst)
        /\ ~(unit_s = NoUnit \/ unit_t = NoUnit)
        /\ unit_s.player # unit_t.player
        /\ \E i \in 1..4 : coords.dst = adj[i]

\* is_valid_repair without the test that the repair amount is not 0
is_valid_repair_zero(g, coords) ==
    LET unit_s == get(g, coords.src)
        unit_t == get(g, coords.dst)
        adj    == iter_adjacent(coords.src)
    IN  /\ is_valid_coord(coords.src) /\ is_valid_coord(coords.dst)
        /\ ~(unit_s = NoUnit \/ unit_t = NoUnit)
        /\ unit_s.player = unit_t.player
        /\ \E i \in 1..4 : coords.dst = adj[i]

\* Game.is_valid_repair
is_valid_repair(g, coords) ==
    LET unit_s == get(g, coords.src)
        unit_t == get(g, coords.dst)
        adj    == iter_adjacent(coords.src)
    IN  /\ is_valid_coord(coords.src) /\ is_valid_coord(coords.dst)
        /\ ~(unit_s = NoUnit \/ unit_t = NoUnit)
        /\ unit_s.player = unit_t.player
        /\ repair_amount(unit_s, unit_t) # 0
        /\ \E i \in 1..4 : coords.dst = adj[i]

\* can_self_destruct without the test that the target is the source
can_self_destruct_anywhere(g, coords) ==
    /\ is_valid_coord(coords.src) /\ is_valid_coord(coords.dst)
    /\ get(g, coords.src) # NoUnit

\* Game.can_self_destruct
can_self_destruct(g, coords) ==
    /\ is_valid_coord(coords.src) /\ is_valid_coord(coords.dst)
    /\ get(g, coords.src) # NoUnit
    /\ coords.src = coords.dst

\* the loop of the self-destruct branch: mod_health(c, -2) for c in iter_range(1)
RECURSIVE damage_range(_, _, _)
damage_range(g, cs, i) ==
    IF i > Len(cs) THEN g ELSE damage_range(mod_health(g, cs[i], -2), cs, i + 1)

\* the move branch leaving the unit on the source cell as well
do_move_copy(g, coords) ==
    set(g, coords.dst, get(g, coords.src))

\* perform_move's four branches
do_move(g, coords) ==
    set(set(g, coords.dst, get(g, coords.src)), coords.src, NoUnit)

\* the attack branch with only the damage dealt back to the source
do_attack_back_only(g, coords) ==
    mod_health(g, coords.src, -damage_amount(get(g, coords.dst), get(g, coords.src)))

\* the attack branch with no damage dealt back to the source
do_attack_one_sided(g, coords) ==
    mod_health(g, coords.dst, -damage_amount(get(g, coords.src), get(g, coords.dst)))

do_attack(g, coords) ==
    LET unit_s == get(g, coords.src)
        unit_t == get(g, coords.dst)
        damage_on_t == damage_amount(unit_s, unit_t)
        damage_on_s == damage_amount(unit_t, unit_s)
    IN  mod_health(mod_health(g, coords.src, -damage_on_s), coords.dst, -damage_on_t)

do_repair(g, coords) ==
    LET unit_s == get(g, coords.src)
        unit_t == get(g, coords.dst)
        repair_on_t == repair_amount(unit_s, unit_t)
    IN  mod_health(g, coords.dst, repair_on_t)

\* the self-destruct branch damaging iter_adjacent() instead of iter_range(1)
do_self_destruct_adjacent(g, coords) ==
    damage_range(mod_health(g, coords.src, -9), iter_adjacent(coords.src), 1)

do_self_destruct(g, coords) ==
    damage_range(mod_health(g, coords.src, -9), iter_range(coords.src, 1), 1)

\* str(coord) does not fault
can_write(coord) ==
    row_string(coord) # "IndexError" /\ col_string(coord) # "IndexError"

\* the (success, description) pair of perform_move; the description is kept
\* as its parts: the player, the turn number, the kind and the coordinates
Result(g, ok, kind, coords) ==
    [success |-> ok, kind |-> kind, player |-> g.next_player,
     turn |-> IF ok THEN g.turns_played + 1 ELSE 0,
     src |-> coords.src, dst |-> coords.dst]

\* Game.perform_move: the game after the call and what the call returns; the
\* kind "IndexError" stands for the call that returns nothing because writing
\* the coordinates into the description of the invalid move faults
perform_move(g, coords) ==
    IF is_valid_move(g, coords)
    THEN [game |-> do_move(g, coords), result |-> Result(g, TRUE, "move", coords)]
    ELSE IF is_valid_attack(g, coords)
    THEN [game |-> do_attack(g, coords), result |-> Result(g, TRUE, "attack", coords)]
    ELSE IF is_valid_repair(g, coords)
    THEN [game |-> do_repair(g, coords), result |-> Result(g, TRUE, "repair", coords)]
    ELSE IF can_self_destruct(g, coords)
    THEN [game |-> do_self_destruct(g, coords),
          result |-> Result(g, TRUE, "self-destruct", coords)]
    ELSE IF ~can_write(coords.src) \/ ~can_write(coords.dst)
    THEN [game |-> g, result |-> Result(g, FALSE, "IndexError", coords)]
    ELSE [game |-> g, result |-> Result(g, FALSE, "invalid", coords)]

\* next_turn without the change of player
next_turn_same_player(g) ==
    [g EXCEPT !.turns_played = g.turns_played + 1]

\* Game.next_turn
next_turn(g) ==
    [g EXCEPT !.next_player = PlayerNext(g.next_player),
              !.turns_played = g.turns_played + 1]

\* has_winner looking at the turn limit only
has_winner_turns_only(g) ==
    IF g.turns_played >= max_turns THEN Defender ELSE "None"

\* has_winner looking at the AIs before the turn limit
has_winner_ai_first(g) ==
    IF g.attacker_has_ai
    THEN IF g.defender_has_ai
         THEN IF g.turns_played >= max_turns THEN Defender ELSE "None"
         ELSE Attacker
    ELSE Defender

\* has_winner with the turn limit one turn late
has_winner_late(g) ==
    IF g.turns_played > max_turns
    THEN Defender
    ELSE IF g.attacker_has_ai
         THEN IF g.defender_has_ai THEN "None" ELSE Attacker
         ELSE Defender

\* Game.has_winner ("None" for no winner)
has_winner(g) ==
    IF g.turns_played >= max_turns
    THEN Defender
    ELSE IF g.attacker_has_ai
         THEN IF g.defender_has_ai THEN "None" ELSE Attacker
         ELSE Defender

\* Game.is_finished
is_finished(g) == has_winner(g) # "None"

----------------------------------------------------------------------------
(* Construction *)

\* Game.__post_init__
post_init ==
    LET md == dim - 1
        placed ==
            << <<Coord(0, 0), Unit(Defender, AI, 9)>>,
               <<Coord(1, 0), Unit(Defender, Tech, 9)>>,
               <<Coord(0, 1), Unit(Defender, Tech, 9)>>,
               <<Coord(2, 0), Unit(Defender, Firewall, 9)>>,
               <<Coord(0, 2), Unit(Defender, Firewall, 9)>>,
               <<Coord(1, 1), Unit(Defender, Program, 9)>>,
               <<Coord(md, md), Unit(Attacker, AI, 9)>>,
               <<Coord(md - 1, md), Unit(Attacker, Virus, 9)>>,
               <<Coord(md, md - 1), Unit(Attacker, Virus, 9)>>,
               <<Coord(md - 2, md), Unit(Attacker, Program, 9)>>,
               <<Coord(md, md - 2), Unit(Attacker, Program, 9)>>,
               <<Coord(md - 1, md - 1), Unit(Attacker, Firewall, 9)>> >>
        empty == [board |-> [c \in Cells |-> NoUnit],
                  next_player |-> Attacker,
                  turns_played |-> 0,
                  attacker_has_ai |-> TRUE,
                  defender_has_ai |-> TRUE]
        place[i \in 0..Len(placed)] ==
            IF i = 0 THEN empty ELSE set(place[i - 1], placed[i][1], placed[i][2])
    IN  place[Len(placed)]

\* the game whose fields the variables hold
self == [board |-> board, next_player |-> next_player, turns_played |-> turns_played,
         attacker_has_ai |-> attacker_has_ai, defender_has_ai |-> defender_has_ai]

----------------------------------------------------------------------------
(* Successor generation *)

\* Game.player_units: the cells holding a unit of `player`, in board scan order
player_units(g, player) ==
    SelectSeq(iter_rectangle,
              LAMBDA c : get(g, c) # NoUnit /\ get(g, c).player = player)

RECURSIVE Flatten(_, _)
Flatten(ss, i) == IF i > Len(ss) THEN <<>> ELSE ss[i] \o Flatten(ss, i + 1)

\* Game.get_children: the (successor, move) pairs in the order they are yielded
get_children(g) ==
    LET units == player_units(g, g.next_player)
        try(mv, r) ==
            IF r.result.success
            THEN << [game |-> next_turn(r.game), move |-> mv] >>
            ELSE <<>>
        of_unit(src) ==
            LET dsts == iter_adjacent(src) \o << src >>
            IN  Flatten([k \in 1..Len(dsts) |->
                           try(CoordPair(src, dsts[k]),
                               perform_move(g, CoordPair(src, dsts[k])))], 1)
    IN  Flatten([i \in 1..Len(units) |-> of_unit(units[i])], 1)

\* get_children yields the move of a self-destruct as the very CoordPair it
\* goes on writing its next moves into (the other moves are yielded as
\* clones): a self-destruct that was yielded reads, once child `last` has
\* been yielded, as the move of that child
move_read(children, k, last) ==
    IF children[k].move.src = children[k].move.dst
    THEN children[last].move
    ELSE children[k].move

\* the children a caller has collected when get_children has yielded `last`
\* of them
children_read(children, last) ==
    [k \in 1..last |-> [game |-> children[k].game, move |-> move_read(children, k, last)]]

\* Game.clone without the deep copy of the board
clone_shallow(g) == [game |-> g, shared |-> {"board"}]

\* Game.clone: the copy, and the fields of the game whose object the copy
\* shares with g, so that a change made through the copy shows in g.  The
\* board is a deep copy; next_player, turns_played and the has-AI flags are
\* values the copy rebinds (options, statistics and the action log, which are
\* shared, are no fields of the game record)
clone(g) == [game |-> g, shared |-> {}]

\* game g once its copy c has become `changed`
seen_through(g, c, changed) ==
    [f \in DOMAIN g |-> IF f \in c.shared THEN changed[f] ELSE g[f]]

\* the moves get_children tries, in order: for every unit of next_player its
\* four adjacent cells, then its own cell
tried_moves(g) ==
    LET units == player_units(g, g.next_player)
    IN  Flatten([i \in 1..Len(units) |->
                   [k \in 1..5 |-> CoordPair(units[i],
                                              (iter_adjacent(units[i]) \o << units[i] >>)[k])]], 1)

\* Game.get_children, seen from g: the game g itself once the generator has
\* tried its first n moves, each by perform_move and next_turn on a clone of g
RECURSIVE get_children_self(_, _, _)
get_children_self(g, moves, n) ==
    IF n = 0
    THEN g
    ELSE LET tried(now, nodeClone) ==
                 LET node(r) == IF r.result.success THEN next_turn(r.game) ELSE r.game
                 IN  seen_through(now, nodeClone,
                                  node(perform_move(nodeClone.game, moves[n])))
             cloned(now) == tried(now, clone(now))
         IN  cloned(get_children_self(g, moves, n - 1))

----------------------------------------------------------------------------
(* Heuristics *)

RECURSIVE SumSeq(_, _)
SumSeq(s, i) == IF i > Len(s) THEN 0 ELSE s[i] + SumSeq(s, i + 1)

OtherTypes == {Virus, Tech, Firewall, Program}

\* the loop of e0 over the units of one player
e0_count(g, player) ==
    LET us == player_units(g, player)
    IN  SumSeq([i \in 1..Len(us) |->
                  IF get(g, us[i]).type \in OtherTypes THEN 3
                  ELSE IF get(g, us[i]).type = AI THEN 9999 ELSE 0], 1)

e0(g) == e0_count(g, Attacker) - e0_count(g, Defender)

\* the loop of e1 over the units of one player
e1_count(g, player) ==
    LET us == player_units(g, player)
    IN  SumSeq([i \in 1..Len(us) |->
                  IF get(g, us[i]).type \in OtherTypes THEN 3 * get(g, us[i]).health
                  ELSE IF get(g, us[i]).type = AI THEN 999 * get(g, us[i]).health
                  ELSE 0], 1)

e1(g) == e1_count(g, Attacker) - e1_count(g, Defender)

\* the weight of a unit type in helper_e2: (Firewall/Program, Virus/Tech, AI)
Tier(t, low, mid, high) ==
    IF t \in {Firewall, Program} THEN low
    ELSE IF t \in {Virus, Tech} THEN mid
    ELSE IF t = AI THEN high ELSE 0

\* helper_e2: what one cell of iter_range(1) adds to the count of `unit`
e2_adjacent(g, unit, coord_adj) ==
    LET unit_adj == get(g, coord_adj)
    IN  IF unit_adj # NoUnit /\ unit_adj.player # g.next_player
        THEN IF damage_amount(unit_adj, unit) >= unit.health
             THEN - Tier(unit.type, 2, 5, 9999) * unit.health
             ELSE 0
        ELSE IF unit_adj # NoUnit /\ unit_adj.player = g.next_player
        THEN (IF unit.type = AI THEN 999 ELSE 0)
             + (LET repair == repair_amount(unit_adj, unit)
                IN  IF repair > 0 /\ unit.health < 9
                    THEN Tier(unit.type, 2, 5, 9999) * repair
                    ELSE 0)
        ELSE 0

helper_e2(g, player) ==
    LET us == player_units(g, player)
    IN  SumSeq([i \in 1..Len(us) |->
                  LET unit == get(g, us[i])
                      around == iter_range(us[i], 1)
                  IN  Tier(unit.type, 3, 9, 99999) * unit.health
                      + SumSeq([j \in 1..Len(around) |->
                                  e2_adjacent(g, unit, around[j])], 1)], 1)

e2(g) == helper_e2(g, Attacker) - helper_e2(g, Defender)

\* e falling back on e1 when the selector is none of 0, 1, 2
e_falls_to_e1(g, opts) ==
    IF opts.heuristic = 0 THEN e0(g)
    ELSE IF opts.heuristic = 2 THEN e2(g)
    ELSE e1(g)

\* e: the heuristic the options select
e(g, opts) ==
    IF opts.heuristic = 0 THEN e0(g)
    ELSE IF opts.heuristic = 1 THEN e1(g)
    ELSE IF opts.heuristic = 2 THEN e2(g)
    ELSE e0(g)

----------------------------------------------------------------------------
(* Search.  The state a search works on, shared by every node of the tree,  *)
(* is a record st: the statistics, is_time_out, current_depth, and the      *)
(* wall clock.  The clock is the number of time checks that still find      *)
(* time left (elapsed_seconds < max_time_adjusted); Never is a clock that   *)
(* does not run out during the search.                                      *)

Never == -1

\* None, for an absent move
NoMove == CoordPair(Coord(-1, -1), Coord(-1, -1))

\* the best move a loop over get_children returns when it is left after child
\* `last`: the move it kept, as it reads then
returned_move(bestmove, children, last) ==
    IF bestmove # NoMove /\ bestmove.src = bestmove.dst
    THEN children[last].move
    ELSE bestmove

RECURSIVE Gcd(_, _)
Gcd(a, b) == IF b = 0 THEN a ELSE Gcd(b, a % b)

\* Game.update_average_branching; the average is kept as the fraction num/den
update_average_branching(st, branch_factor) ==
    LET avg == st.stats.average_branching_factor
        n   == st.stats.average_branching_size
        num == avg.num * n + branch_factor * avg.den
        den == avg.den * (n + 1)
        d   == IF num = 0 THEN den ELSE Gcd(num, den)
    IN  [st EXCEPT !.stats.average_branching_factor = [num |-> num \div d, den |-> den \div d],
                   !.stats.average_branching_size = n + 1]

\* Game.update_evaluations_per_depth
update_evaluations_per_depth(st) ==
    LET epd == st.stats.evaluations_per_depth
        k   == st.current_depth
        ini == IF k \in DOMAIN epd THEN epd ELSE [j \in DOMAIN epd \cup {k} |->
                                                    IF j = k THEN 0 ELSE epd[j]]
    IN  [st EXCEPT !.stats.evaluations_per_depth = [ini EXCEPT ![k] = ini[k] + 1]]

\* the time check at the entry of alpha_beta and of minimax
time_is_up(st) == st.clock = 0

tick(st) == IF st.clock > 0 THEN [st EXCEPT !.clock = st.clock - 1] ELSE st

Ret(score, move, st) == [score |-> score, move |-> move, st |-> st]

RECURSIVE alpha_beta(_, _, _, _, _, _, _)
RECURSIVE alpha_beta_max(_, _, _, _, _, _, _, _, _, _)
RECURSIVE alpha_beta_min(_, _, _, _, _, _, _, _, _)

\* Game.alpha_beta
alpha_beta(opts, node, depth, alpha, beta, maximizingPlayer, st) ==
    IF time_is_up(st)
    THEN Ret(0, NoMove, [st EXCEPT !.is_time_out = TRUE])
    ELSE IF depth = 0 \/ is_finished(node)
    THEN Ret(e(node, opts), NoMove, update_evaluations_per_depth(tick(st)))
    ELSE IF maximizingPlayer
    THEN alpha_beta_max(opts, get_children(node), 1, depth, alpha, beta,
                        MIN_HEURISTIC_SCORE, NoMove, 0, tick(st))
    ELSE alpha_beta_min(opts, get_children(node), 1, depth, alpha, beta,
                        MAX_HEURISTIC_SCORE, NoMove, tick(st))

\* the loop of the maximizing branch, at child i, and what follows the loop
alpha_beta_max(opts, children, i, depth, alpha, beta, value, bestmove, branch_factor, st) ==
    IF i > Len(children)
    THEN Ret(value, returned_move(bestmove, children, Len(children)),
             update_average_branching(st, branch_factor))
    ELSE LET child(r) ==
                 LET better == r.score > value
                     value1 == IF better THEN r.score ELSE value
                     move1  == IF better THEN children[i].move ELSE bestmove
                     alpha1 == IF value1 > alpha THEN value1 ELSE alpha
                 IN  IF r.st.is_time_out
                     THEN Ret(r.score, r.move, r.st)
                     ELSE IF beta <= alpha1
                     THEN Ret(value1, returned_move(move1, children, i),
                              update_average_branching(r.st, branch_factor + 1))
                     ELSE alpha_beta_max(opts, children, i + 1, depth, alpha1, beta,
                                         value1, move1, branch_factor + 1, r.st)
         IN  child(alpha_beta(opts, children[i].game, depth - 1, alpha, beta, FALSE, st))

\* the minimizing branch with the test of the cutoff the wrong way round
alpha_beta_min_eager(opts, children, i, depth, alpha, beta, value, bestmove, st) ==
    IF i > Len(children)
    THEN Ret(value, returned_move(bestmove, children, Len(children)),
             update_average_branching(st, 0))
    ELSE LET child(r) ==
                 LET better == r.score < value
                     value1 == IF better THEN r.score ELSE value
                     move1  == IF better THEN children[i].move ELSE bestmove
                     beta1  == IF value1 < beta THEN value1 ELSE beta
                 IN  IF r.st.is_time_out
                     THEN Ret(r.score, r.move, r.st)
                     ELSE IF alpha <= beta1
                     THEN Ret(value1, returned_move(move1, children, i),
                              update_average_branching(r.st, 0))
                     ELSE alpha_beta_min(opts, children, i + 1, depth, alpha, beta1,
                                         value1, move1, r.st)
         IN  child(alpha_beta(opts, children[i].game, depth - 1, alpha, beta, TRUE, st))

\* the loop of the minimizing branch, which sets branch_factor to 0 for each
\* child, and what follows the loop (a node that is not finished has a child:
\* the side to move still has its AI, which can self-destruct)
alpha_beta_min(opts, children, i, depth, alpha, beta, value, bestmove, st) ==
    IF i > Len(children)
    THEN Ret(value, returned_move(bestmove, children, Len(children)),
             update_average_branching(st, 0))
    ELSE LET child(r) ==
                 LET better == r.score < value
                     value1 == IF better THEN r.score ELSE value
                     move1  == IF better THEN children[i].move ELSE bestmove
                     beta1  == IF value1 < beta THEN value1 ELSE beta
                 IN  IF r.st.is_time_out
                     THEN Ret(r.score, r.move, r.st)
                     ELSE IF beta1 <= alpha
                     THEN Ret(value1, returned_move(move1, children, i),
                              update_average_branching(r.st, 0))
                     ELSE alpha_beta_min(opts, children, i + 1, depth, alpha, beta1,
                                         value1, move1, r.st)
         IN  child(alpha_beta(opts, children[i].game, depth - 1, alpha, beta, TRUE, st))

RECURSIVE minimax(_, _, _, _, _)
RECURSIVE minimax_loop(_, _, _, _, _, _, _, _, _)

\* Game.minimax
minimax(opts, game, depth, maximizing_player, st) ==
    IF time_is_up(st)
    THEN Ret(0, NoMove, [st EXCEPT !.is_time_out = TRUE])
    ELSE IF depth = 0 \/ is_finished(game)
    THEN Ret(e(game, opts), NoMove, update_evaluations_per_depth(tick(st)))
    ELSE minimax_loop(opts, get_children(game), 1, depth, maximizing_player,
                      IF maximizing_player THEN MIN_HEURISTIC_SCORE
                                           ELSE MAX_HEURISTIC_SCORE,
                      NoMove, 0, tick(st))

\* the loop of minimax updating the branching statistics before it returns
\* on a timeout
minimax_loop_counts_on(opts, children, i, depth, maximizing_player, best_eval, best_move, branch_factor, st) ==
    IF i > Len(children)
    THEN Ret(best_eval, returned_move(best_move, children, Len(children)),
             update_average_branching(st, branch_factor))
    ELSE LET child(r) ==
                 LET better == IF maximizing_player THEN r.score > best_eval
                                                    ELSE r.score < best_eval
                 IN  IF r.st.is_time_out
                     THEN Ret(r.score, r.move,
                              update_average_branching(r.st, branch_factor + 1))
                     ELSE minimax_loop(opts, children, i + 1, depth, maximizing_player,
                                       IF better THEN r.score ELSE best_eval,
                                       IF better THEN children[i].move ELSE best_move,
                                       branch_factor + 1, r.st)
         IN  child(minimax(opts, children[i].game, depth - 1, ~maximizing_player, st))

\* the loop of either branch of minimax, at child i, and what follows it
minimax_loop(opts, children, i, depth, maximizing_player, best_eval, best_move, branch_factor, st) ==
    IF i > Len(children)
    THEN Ret(best_eval, returned_move(best_move, children, Len(children)),
             update_average_branching(st, branch_factor))
    ELSE LET child(r) ==
                 LET better == IF maximizing_player THEN r.score > best_eval
                                                    ELSE r.score < best_eval
                 IN  IF r.st.is_time_out
                     THEN Ret(r.score, r.move, r.st)
                     ELSE minimax_loop(opts, children, i + 1, depth, maximizing_player,
                                       IF better THEN r.score ELSE best_eval,
                                       IF better THEN children[i].move ELSE best_move,
                                       branch_factor + 1, r.st)
         IN  child(minimax(opts, children[i].game, depth - 1, ~maximizing_player, st))

\* the call of the recursive search from the root that alpha_beta_move (ab)
\* and minimax_move (not ab) make for one depth
search(ab, opts, g, depth, st) ==
    IF ab
    THEN alpha_beta(opts, g, depth, MIN_HEURISTIC_SCORE, MAX_HEURISTIC_SCORE,
                    g.next_player = Attacker, st)
    ELSE minimax(opts, g, depth, g.next_player = Attacker, st)

\* what alpha_beta_move and minimax_move can do: return (score, move), or
\* raise because best_score is read before any depth completed
Returned(score, move, timed_out, st) ==
    [kind |-> "return", score |-> score, move |-> move, timed_out |-> timed_out, st |-> st]

Raised(timed_out, st) ==
    [kind |-> "UnboundLocalError", score |-> 0, move |-> NoMove,
     timed_out |-> timed_out, st |-> st]

RECURSIVE deepen(_, _, _, _, _, _, _, _)

\* the loop over depth returning what the aborted depth returned
deepen_aborted(ab, opts, g, depth, bound, best_score, best_move, st) ==
    IF depth > opts.max_depth
    THEN IF bound THEN Returned(best_score, best_move, FALSE, st) ELSE Raised(FALSE, st)
    ELSE LET after(r) ==
                 IF r.st.is_time_out
                 THEN Returned(r.score, r.move, TRUE, [r.st EXCEPT !.is_time_out = FALSE])
                 ELSE deepen(ab, opts, g, depth + 1, TRUE, r.score, r.move, r.st)
         IN  after(search(ab, opts, g, depth, [st EXCEPT !.current_depth = depth]))

\* the loop over depth returning what the first depth it completes returned
deepen_first(ab, opts, g, depth, bound, best_score, best_move, st) ==
    IF depth > opts.max_depth
    THEN IF bound THEN Returned(best_score, best_move, FALSE, st) ELSE Raised(FALSE, st)
    ELSE LET after(r) ==
                 IF r.st.is_time_out
                 THEN IF bound
                      THEN Returned(best_score, best_move, TRUE,
                                    [r.st EXCEPT !.is_time_out = FALSE])
                      ELSE Raised(TRUE, [r.st EXCEPT !.is_time_out = FALSE])
                 ELSE Returned(r.score, r.move, FALSE, r.st)
         IN  after(search(ab, opts, g, depth, [st EXCEPT !.current_depth = depth]))

\* the loop over depth of alpha_beta_move and of minimax_move
deepen(ab, opts, g, depth, bound, best_score, best_move, st) ==
    IF depth > opts.max_depth
    THEN IF bound THEN Returned(best_score, best_move, FALSE, st) ELSE Raised(FALSE, st)
    ELSE LET after(r) ==
                 IF r.st.is_time_out
                 THEN IF bound
                      THEN Returned(best_score, best_move, TRUE,
                                    [r.st EXCEPT !.is_time_out = FALSE])
                      ELSE Raised(TRUE, [r.st EXCEPT !.is_time_out = FALSE])
                 ELSE deepen(ab, opts, g, depth + 1, TRUE, r.score, r.move, r.st)
         IN  after(search(ab, opts, g, depth, [st EXCEPT !.current_depth = depth]))

\* Game.alpha_beta_move
alpha_beta_move(opts, g, st) == deepen(TRUE, opts, g, 1, FALSE, 0, NoMove, st)

\* Game.minimax_move
minimax_move(opts, g, st) == deepen(FALSE, opts, g, 1, FALSE, 0, NoMove, st)

\* Game.suggest_move, for a clock that runs out at its time check number
\* clock + 1
suggest_move(opts, g, st) ==
    IF opts.alpha_beta THEN alpha_beta_move(opts, g, st) ELSE minimax_move(opts, g, st)

----------------------------------------------------------------------------
(* Positions of play.  A game starts from the constructed board; the model  *)
(* also starts from positions further into a game, each one the result of   *)
(* playing a fixed sequence of accepted turns from the constructed board.   *)

Mv(r0, c0, r1, c1) == CoordPair(Coord(r0, c0), Coord(r1, c1))

\* one accepted turn of human_turn: perform_move, then next_turn
play_turn(g, coords) ==
    LET turn(r) == IF r.result.success THEN next_turn(r.game) ELSE g
    IN  turn(perform_move(g, coords))

\* the turns moves[lo..hi] played in order from g, every one of them accepted
RECURSIVE play(_, _, _, _)
play(g, moves, lo, hi) ==
    IF lo > hi THEN g
    ELSE IF lo = hi THEN play_turn(g, moves[lo])
    ELSE LET mid  == (lo + hi) \div 2
             half == play(g, moves, lo, mid)
         IN  IF half.turns_played = g.turns_played + (mid - lo + 1)
             THEN play(half, moves, mid + 1, hi)
             ELSE g

RECURSIVE Repeat(_, _)
Repeat(s, n) == IF n = 0 THEN <<>> ELSE s \o Repeat(s, n - 1)

\* the Attacker's Program and the Defender's Firewall step aside, then a
\* Virus and a Tech step back and forth until 99 turns are played; Defender
\* to move, one turn before the turn limit
OpeningLate ==
    << Mv(2, 4, 1, 4), Mv(0, 2, 0, 3) >>
    \o Repeat(<< Mv(3, 4, 2, 4), Mv(0, 1, 0, 2), Mv(2, 4, 3, 4), Mv(0, 2, 0, 1) >>, 24)
    \o << Mv(3, 4, 2, 4) >>

\* 18 turns into a skirmish in the middle of the board; Attacker to move
OpeningSkirmish ==
    << Mv(3, 4, 3, 4), Mv(0, 1, 0, 1), Mv(3, 3, 2, 3), Mv(2, 0, 3, 0),
       Mv(4, 4, 3, 4), Mv(0, 0, 1, 0), Mv(2, 4, 2, 4), Mv(0, 2, 1, 2),
       Mv(4, 2, 3, 2), Mv(1, 2, 2, 2), Mv(4, 3, 3, 3), Mv(1, 0, 0, 0),
       Mv(2, 3, 2, 2), Mv(2, 2, 3, 2), Mv(3, 2, 3, 2), Mv(3, 0, 3, 0),
       Mv(3, 3, 3, 2), Mv(2, 2, 2, 3) >>

\* 30 turns to an end game of the two AIs and a Virus; Attacker to move
OpeningDuel ==
    << Mv(4, 3, 4, 3), Mv(2, 0, 2, 0), Mv(3, 3, 2, 3), Mv(1, 1, 2, 1),
       Mv(4, 4, 4, 3), Mv(0, 0, 1, 0), Mv(2, 4, 1, 4), Mv(0, 1, 0, 1),
       Mv(4, 2, 4, 2), Mv(0, 0, 1, 0), Mv(1, 4, 1, 4), Mv(0, 0, 1, 0),
       Mv(2, 3, 2, 3), Mv(1, 0, 1, 1), Mv(4, 3, 4, 2), Mv(1, 1, 2, 1),
       Mv(4, 2, 3, 2), Mv(1, 1, 1, 2), Mv(3, 4, 2, 4), Mv(1, 2, 1, 2),
       Mv(2, 4, 2, 3), Mv(0, 0, 0, 1), Mv(3, 2, 3, 1), Mv(0, 2, 0, 2),
       Mv(2, 3, 3, 3), Mv(0, 1, 1, 1), Mv(3, 3, 2, 3), Mv(2, 1, 2, 1),
       Mv(2, 3, 2, 2), Mv(1, 1, 2, 1) >>

\* 27 turns to an end game of the two AIs and a Firewall; Defender to move
OpeningEndgame ==
    << Mv(2, 4, 2, 3), Mv(2, 0, 2, 1), Mv(2, 3, 1, 3), Mv(1, 0, 2, 0),
       Mv(4, 3, 4, 3), Mv(2, 0, 3, 0), Mv(4, 4, 3, 4), Mv(1, 1, 1, 1),
       Mv(4, 4, 4, 3), Mv(3, 0, 3, 0), Mv(1, 3, 1, 3), Mv(0, 0, 0, 1),
       Mv(3, 4, 3, 4), Mv(0, 2, 0, 3), Mv(3, 3, 3, 3), Mv(0, 1, 0, 1),
       Mv(4, 3, 3, 3), Mv(0, 0, 1, 0), Mv(4, 2, 3, 2), Mv(0, 3, 0, 3),
       Mv(3, 2, 3, 1), Mv(2, 1, 3, 1), Mv(3, 3, 3, 2), Mv(1, 0, 2, 0),
       Mv(3, 1, 3, 1), Mv(2, 0, 3, 0), Mv(3, 2, 3, 1) >>

\* the same end game reached after 99 turns: a Virus and a Tech step back and
\* forth after the second turn
OpeningLateEndgame ==
    SubSeq(OpeningEndgame, 1, 2)
    \o Repeat(<< Mv(3, 4, 2, 4), Mv(1, 0, 2, 0), Mv(2, 4, 3, 4), Mv(2, 0, 1, 0) >>, 18)
    \o SubSeq(OpeningEndgame, 3, Len(OpeningEndgame))

Openings == << <<>>, OpeningLate, OpeningSkirmish, OpeningDuel, OpeningEndgame,
               OpeningLateEndgame >>

\* the openings that leave few units, from which the computer plays
SmallOpenings == {4, 5, 6}

AttackerVsDefender == "AttackerVsDefender"
AttackerVsComp == "AttackerVsComp"
CompVsDefender == "CompVsDefender"
CompVsComp == "CompVsComp"

\* Options(), as main() sets them from the command line
Options(game_type, ab, heuristic, depth) ==
    [game_type |-> game_type, alpha_beta |-> ab, heuristic |-> heuristic,
     max_depth |-> depth, broker |-> FALSE]

\* the options of a game played through a broker (--broker)
BrokerOptions(game_type) ==
    [Options(game_type, TRUE, 0, 1) EXCEPT !.broker = TRUE]

\* the games played: a manual game from every opening, and the games with a
\* computer player, under every search option, from the small openings
Setups ==
    {<<k, Options(AttackerVsDefender, TRUE, 0, 1)>> : k \in 1..Len(Openings)}
    \cup {<<k, Options(gt, ab, hh, d)>> :
            k \in SmallOpenings,
            gt \in {AttackerVsComp, CompVsDefender, CompVsComp},
            ab \in BOOLEAN, hh \in 0..MaxHeuristic, d \in 1..MaxDepth}

NoResult == [success |-> FALSE, kind |-> "none", player |-> "None", turn |-> 0,
             src |-> Coord(-1, -1), dst |-> Coord(-1, -1)]

\* no function is called on its own
NoCall == [op |-> "none"]

\* the call has not returned
NoRet == [done |-> FALSE, value |-> 0]

\* the broker has not been polled
NoPoll == [ok |-> FALSE, data |-> None, applied |-> FALSE]

NoSuggestion == [kind |-> "none", score |-> 0, move |-> NoMove, timed_out |-> FALSE]

\* Stats()
Stats0 == [evaluations_per_depth |-> <<>>,
           average_branching_factor |-> [num |-> 0, den |-> 1],
           average_branching_size |-> 0]

Init ==
    \E su \in Setups :
        LET g == play(post_init, Openings[su[1]], 1, Len(Openings[su[1]]))
        IN  /\ g.turns_played = Len(Openings[su[1]])
            /\ board = g.board
            /\ next_player = g.next_player
            /\ turns_played = g.turns_played
            /\ attacker_has_ai = g.attacker_has_ai
            /\ defender_has_ai = g.defender_has_ai
            /\ options = su[2]
            /\ stats = Stats0
            /\ is_time_out = FALSE
            /\ current_depth = 0
            /\ pc = "check"
            /\ winner = "None"
            /\ last_result = NoResult
            /\ suggestion = NoSuggestion
            /\ steps = 0
            /\ call = NoCall
            /\ ret = NoRet
            /\ broker = None
            /\ polled = NoPoll

\* what read_move returns: a pair of cells of the board (here, a cell and
\* itself, one of the four cells next to it, or the cell below it to the
\* right, which is not next to it)
HumanInputs ==
    {mv \in {CoordPair(s, d) : s \in Cells, d \in Cells} :
        \/ (mv.dst.row - mv.src.row) * (mv.dst.row - mv.src.row)
             + (mv.dst.col - mv.src.col) * (mv.dst.col - mv.src.col) <= 1
        \/ mv.dst.row - mv.src.row = 1 /\ mv.dst.col - mv.src.col = 1}

\* the clocks of a search: out of time at the first time check, after 1, 2,
\* ... MaxClock checks, or not before the search ends
Clocks == 0..MaxClock \cup {Never}

\* main: the top of the game loop
CheckWinner ==
    /\ pc = "check"
    /\ winner' = has_winner(self)
    /\ pc' = IF has_winner(self) # "None" THEN "done" ELSE "turn"
    /\ UNCHANGED <<gamevars, options, stats, is_time_out, current_depth,
                   last_result, suggestion, steps, call, ret, broker, polled>>

\* the moves one run explores
StepBound == IF options.broker THEN MaxPolls ELSE MaxSteps

\* main: whose turn the game type gives to human_turn
IsHumanTurn ==
    \/ options.game_type = AttackerVsDefender
    \/ options.game_type = AttackerVsComp /\ next_player = Attacker
    \/ options.game_type = CompVsDefender /\ next_player = Defender

\* human_turn calling next_turn whatever perform_move returned
human_turn_always_next(g, mv) ==
    LET pass(r) == [game |-> next_turn(r.game), result |-> r.result]
    IN  pass(perform_move(g, mv))

\* Game.human_turn without broker, one pass of its loop for the move mv read:
\* the game after the pass and what perform_move returned
human_turn(g, mv) ==
    LET pass(r) == [game |-> IF r.result.success THEN next_turn(r.game) ELSE r.game,
                    result |-> r.result]
    IN  pass(perform_move(g, mv))

\* Game.computer_turn: the game after the call, what perform_move returned (or
\* `last` when it is not called) and what suggest_move did
computer_turn(opts, g, st, last) ==
    LET turn(r) ==
            LET played(pm) ==
                    [game |-> IF pm.result.success THEN next_turn(pm.game) ELSE pm.game,
                     result |-> pm.result, suggested |-> r]
            IN  IF r.kind = "return" /\ r.move # NoMove
                THEN played(perform_move(g, r.move))
                ELSE [game |-> g, result |-> last, suggested |-> r]
    IN  turn(suggest_move(opts, g, st))

\* Game.post_move_to_broker: the data the broker holds once the request went
\* through
post_move_to_broker(g, move) ==
    Some([from |-> move.src, to |-> move.dst, turn |-> g.turns_played])

\* Game.get_move_from_broker accepting the data of any turn
get_move_from_broker_any_turn(g, response) ==
    IF ~response.ok \/ response.data = None THEN None
    ELSE LET data == response.data[1]
             move == CoordPair(data.from, data.to)
         IN  IF ~can_write(move.src) \/ ~can_write(move.dst) THEN None
             ELSE Some(move)

\* Game.get_move_from_broker, for the response the request got: ok is a
\* request that went through with status 200 and success, data is what the
\* broker holds; writing the move it got may fault, which is caught
get_move_from_broker(g, response) ==
    IF ~response.ok \/ response.data = None THEN None
    ELSE LET data == response.data[1]
             move == CoordPair(data.from, data.to)
         IN  IF data.turn = g.turns_played + 1
             THEN IF ~can_write(move.src) \/ ~can_write(move.dst) THEN None
                  ELSE Some(move)
             ELSE None

\* Game.human_turn with a broker, one pass of its loop for the move mv that
\* get_move_from_broker returned: the game after the pass, what perform_move
\* returned (or `last` when it is not called) and whether the turn is over
human_turn_broker(g, mv, last) ==
    LET pass(r) == [game |-> IF r.result.success THEN next_turn(r.game) ELSE r.game,
                    result |-> r.result, over |-> r.result.success]
    IN  IF mv = None THEN [game |-> g, result |-> last, over |-> FALSE]
        ELSE pass(perform_move(g, mv[1]))

\* main: a turn of a human player, for the move mv read
HumanTurn(mv) ==
    /\ pc = "turn"
    /\ IsHumanTurn
    /\ ~options.broker
    /\ steps < StepBound
    /\ \E t \in {human_turn(self, mv)} :
           /\ board' = t.game.board
           /\ next_player' = t.game.next_player
           /\ turns_played' = t.game.turns_played
           /\ attacker_has_ai' = t.game.attacker_has_ai
           /\ defender_has_ai' = t.game.defender_has_ai
           /\ last_result' = t.result
           /\ pc' = IF t.result.success THEN "check" ELSE "turn"
    /\ steps' = steps + 1
    /\ UNCHANGED <<options, stats, is_time_out, current_depth, winner, suggestion,
                   call, ret, broker, polled>>

\* main: a turn of a computer player and what main does with the move that
\* computer_turn returns, for a search whose clock runs out as `clock` says
ComputerTurn(clock) ==
    /\ pc = "turn"
    /\ ~IsHumanTurn
    /\ steps < StepBound
    /\ \E t \in {computer_turn(options, self,
                                [stats |-> stats, is_time_out |-> is_time_out,
                                 current_depth |-> current_depth, clock |-> clock],
                                last_result)} :
           /\ board' = t.game.board
           /\ next_player' = t.game.next_player
           /\ turns_played' = t.game.turns_played
           /\ attacker_has_ai' = t.game.attacker_has_ai
           /\ defender_has_ai' = t.game.defender_has_ai
           /\ last_result' = t.result
           /\ stats' = t.suggested.st.stats
           /\ is_time_out' = t.suggested.st.is_time_out
           /\ current_depth' = t.suggested.st.current_depth
           /\ suggestion' = [kind |-> t.suggested.kind, score |-> t.suggested.score,
                             move |-> t.suggested.move,
                             timed_out |-> t.suggested.timed_out]
           /\ pc' = IF t.suggested.kind # "return" THEN "raised"
                    ELSE IF t.suggested.move = NoMove THEN "exit"
                    ELSE "check"
           /\ \E posted \in IF /\ options.broker
                                /\ t.suggested.kind = "return"
                                /\ t.suggested.move # NoMove
                             THEN BOOLEAN ELSE {FALSE} :
                  broker' = IF posted
                            THEN post_move_to_broker(t.game, t.suggested.move)
                            ELSE broker
    /\ steps' = steps + 1
    /\ UNCHANGED <<options, winner, call, ret, polled>>

Next ==
    \/ CheckWinner
    \/ \E mv \in HumanInputs : HumanTurn(mv)
    \/ \E clock \in Clocks : ComputerTurn(clock)

Spec == Init /\ [][Next]_vars

\* the game loop that keeps running: control that is at the top of the loop
\* goes on to test has_winner
Live == Spec /\ WF_vars(CheckWinner)

----------------------------------------------------------------------------
(* Broker play: the moves of the human players come from a game broker     *)
(* that the program polls, and the computer's moves are posted to it.      *)

\* the moves the other side posts: a step of Attacker's Program, a step of
\* Defender's Program, a step of Attacker's AI onto its own Virus, and a move
\* that cannot be written
BrokerMoves == {Mv(2, 4, 1, 4), Mv(1, 1, 2, 1), Mv(4, 4, 3, 4), Mv(-27, 0, 0, 0)}

\* the turn numbers of the data posted
BrokerTurns == 0..MaxPolls

BrokerData ==
    {[from |-> mv.src, to |-> mv.dst, turn |-> t] : mv \in BrokerMoves, t \in BrokerTurns}

BrokerSetups ==
    {BrokerOptions(gt) : gt \in {AttackerVsDefender, AttackerVsComp, CompVsDefender}}

\* a game that is constructed, played through a broker that holds no data
BrokerInit ==
    /\ board = post_init.board
    /\ next_player = post_init.next_player
    /\ turns_played = post_init.turns_played
    /\ attacker_has_ai = post_init.attacker_has_ai
    /\ defender_has_ai = post_init.defender_has_ai
    /\ options \in BrokerSetups
    /\ stats = Stats0
    /\ is_time_out = FALSE
    /\ current_depth = 0
    /\ pc = "check"
    /\ winner = "None"
    /\ last_result = NoResult
    /\ suggestion = NoSuggestion
    /\ steps = 0
    /\ call = NoCall
    /\ ret = NoRet
    /\ broker = None
    /\ polled = NoPoll

\* the other side of the game posts data to the broker
OpponentPosts(data) ==
    /\ pc = "turn"
    /\ options.broker
    /\ IsHumanTurn
    /\ broker # Some(data)
    /\ broker' = Some(data)
    /\ UNCHANGED <<gamevars, options, stats, is_time_out, current_depth, pc, winner,
                   last_result, suggestion, steps, call, ret, polled>>

\* main: a turn of a human player with a broker, one pass of human_turn's
\* loop, for a request that went through (ok) or did not
BrokerTurn(ok) ==
    /\ pc = "turn"
    /\ IsHumanTurn
    /\ options.broker
    /\ steps < StepBound
    /\ \E t \in {human_turn_broker(self,
                      get_move_from_broker(self, [ok |-> ok, data |-> broker]),
                      last_result)} :
           /\ board' = t.game.board
           /\ next_player' = t.game.next_player
           /\ turns_played' = t.game.turns_played
           /\ attacker_has_ai' = t.game.attacker_has_ai
           /\ defender_has_ai' = t.game.defender_has_ai
           /\ last_result' = t.result
           /\ pc' = IF t.over THEN "check" ELSE "turn"
           /\ polled' = [ok |-> ok, data |-> IF ok THEN broker ELSE None,
                         applied |-> t.over]
    /\ steps' = steps + 1
    /\ UNCHANGED <<options, stats, is_time_out, current_depth, winner, suggestion,
                   call, ret, broker>>

BrokerNext ==
    \/ CheckWinner
    \/ \E ok \in BOOLEAN : BrokerTurn(ok)
    \/ \E clock \in Clocks : ComputerTurn(clock)
    \/ \E data \in BrokerData : OpponentPosts(data)

BrokerPlay == BrokerInit /\ [][BrokerNext]_vars

----------------------------------------------------------------------------
(* The functions of the program that depend on their arguments only, each  *)
(* called on its own: the state holds the call and what it returned.       *)

\* the health a unit can have, and 0 for one that has just been destroyed
Healths == 0..9

\* the calls unit.damage_amount(target) and unit.repair_amount(target)
AmountCalls ==
    {[op |-> op, unit |-> Unit(Attacker, t, 9), target |-> Unit(p, tt, h)] :
        op \in {"damage_amount", "repair_amount"}, t \in UnitType, p \in Player,
        tt \in UnitType, h \in Healths}

\* the rows and columns of the coordinates given to perform_move: those of the
\* board, one before (what Coord.from_string gives for a character it does
\* not know), one past, and one before the first that can be written
CallRange == -1..dim \cup {-(Len(RowChars) + 1)}

\* the games perform_move is called on: the constructed one and the ones the
\* short openings lead to
CallGames ==
    {post_init} \cup
    {play(post_init, Openings[i], 1, Len(Openings[i])) : i \in SmallOpenings}

\* the calls game.perform_move(coords)
PerformMoveCalls ==
    {[op |-> "perform_move", game |-> g, coords |-> Mv(r0, c0, r1, c1)] :
        g \in CallGames, r0 \in CallRange, c0 \in CallRange,
        r1 \in CallRange, c1 \in CallRange}

\* the heuristic selectors of the options: --heuristic takes any integer
Selectors == -1..MaxHeuristic

\* the calls e(game), for a game whose options select heuristic h
HeuristicCalls ==
    {[op |-> "e", game |-> g, options |-> Options(CompVsComp, TRUE, h, 1)] :
        g \in CallGames, h \in Selectors}

\* the coordinates that are written and read back: every row and column that
\* has a character, and one before and one past them
TextCoords ==
    {Coord(r, c) : r \in -1..Len(RowChars), c \in -1..Len(ColChars)}

\* the far ends of the pairs that are written and read back
PairEnds ==
    {Coord(0, 0), Coord(4, 10), Coord(Len(RowChars) - 1, Len(ColChars) - 1),
     Coord(Len(RowChars), 0)}

\* the calls Coord.from_string(coord.to_string())
CoordTextCalls == {[op |-> "Coord.from_string", coord |-> c] : c \in TextCoords}

\* the calls CoordPair.from_string(coords.to_string())
PairTextCalls ==
    {[op |-> "CoordPair.from_string", coords |-> CoordPair(s, d)] :
        s \in TextCoords, d \in PairEnds}
    \cup {[op |-> "CoordPair.from_string", coords |-> CoordPair(s, d)] :
            s \in PairEnds, d \in TextCoords}

CallInputs ==
    AmountCalls \cup PerformMoveCalls \cup HeuristicCalls \cup CoordTextCalls
    \cup PairTextCalls

\* a game that is constructed and a call that is about to be made
CallsInit ==
    /\ board = post_init.board
    /\ next_player = post_init.next_player
    /\ turns_played = post_init.turns_played
    /\ attacker_has_ai = post_init.attacker_has_ai
    /\ defender_has_ai = post_init.defender_has_ai
    /\ options = Options(AttackerVsDefender, TRUE, 0, 1)
    /\ stats = Stats0
    /\ is_time_out = FALSE
    /\ current_depth = 0
    /\ pc = "call"
    /\ winner = "None"
    /\ last_result = NoResult
    /\ suggestion = NoSuggestion
    /\ steps = 0
    /\ call \in CallInputs
    /\ ret = NoRet
    /\ broker = None
    /\ polled = NoPoll

\* the call returns `value`
Return(value) ==
    /\ pc = "call"
    /\ pc' = "called"
    /\ ret' = [done |-> TRUE, value |-> value]
    /\ UNCHANGED <<gamevars, options, stats, is_time_out, current_depth, winner,
                   last_result, suggestion, steps, call, broker, polled>>

CallDamageAmount ==
    /\ call.op = "damage_amount"
    /\ Return(damage_amount(call.unit, call.target))

CallRepairAmount ==
    /\ call.op = "repair_amount"
    /\ Return(repair_amount(call.unit, call.target))

\* perform_move on its own: the game after the call and what it returned
CallPerformMove ==
    /\ call.op = "perform_move"
    /\ Return(perform_move(call.game, call.coords))

\* e on its own
CallE ==
    /\ call.op = "e"
    /\ Return(e(call.game, call.options))

\* a coordinate written by to_string and read back by from_string
CallCoordFromString ==
    /\ call.op = "Coord.from_string"
    /\ Return([text |-> coord_to_string(call.coord),
               parsed |-> coord_from_string(coord_to_string(call.coord))])

\* a pair of coordinates written by to_string and read back by from_string
CallPairFromString ==
    /\ call.op = "CoordPair.from_string"
    /\ Return([text |-> pair_to_string(call.coords),
               parsed |-> pair_from_string(pair_to_string(call.coords))])

CallsNext ==
    \/ CallDamageAmount
    \/ CallRepairAmount
    \/ CallPerformMove
    \/ CallE
    \/ CallCoordFromString
    \/ CallPairFromString

Calls == CallsInit /\ [][CallsNext]_vars

----------------------------------------------------------------------------
(* Properties *)

\* a turn of a computer player is taken in this step
ComputerStep == pc = "turn" /\ ~IsHumanTurn /\ steps' = steps + 1

\* a turn is taken in this step and perform_move accepted its action
AcceptedStep == pc = "turn" /\ pc' = "check" /\ steps' = steps + 1 /\ last_result'.success

\* the state of a search that starts at depth d and never runs out of time
FreeSt(d) == [stats |-> Stats0, is_time_out |-> FALSE, current_depth |-> d,
              clock |-> Never]

\* the cells that hold a unit
Occupied == {c \in Cells : board[c] # NoUnit}

Abs(n) == IF n < 0 THEN -n ELSE n

\* dst is one of the 4 cells next to src
Orthogonal(src, dst) == Abs(dst.row - src.row) + Abs(dst.col - src.col) = 1

\* dst is one of the 8 cells around src
Around(src, dst) ==
    /\ src # dst
    /\ Abs(dst.row - src.row) <= 1
    /\ Abs(dst.col - src.col) <= 1

\* the unit u after losing dmg of its health, removed when none is left
Damaged(u, dmg) ==
    IF u = NoUnit THEN NoUnit
    ELSE IF u.health - dmg <= 0 THEN NoUnit
    ELSE [u EXCEPT !.health = u.health - dmg]

\* C1: when the time cutoff fires during the iteration at depth d >= 2,
\* suggest_move returns the (score, action) that a complete search of depth
\* d - 1 from the same position produces, and nothing of the aborted depth d.
C1_returns_previous_depth ==
    [][(ComputerStep /\ suggestion'.timed_out /\ current_depth' >= 2)
        => /\ suggestion'.kind = "return"
           /\ \E r \in {search(options.alpha_beta, options, self, current_depth' - 1,
                               FreeSt(current_depth' - 1))} :
                 /\ suggestion'.score = r.score
                 /\ suggestion'.move = r.move]_vars

\* the cutoff fired during depth 2 or deeper and the move of the depth
\* before was returned and played
C1_witness ==
    /\ suggestion.timed_out
    /\ current_depth >= 2
    /\ suggestion.kind = "return"
    /\ suggestion.move # NoMove
    /\ last_result.success
    /\ last_result.src = suggestion.move.src

\* C2: when the time cutoff fires before depth 1 completes, suggest_move
\* returns normally with no action (None), and main sees a computer that has
\* no move.
C2_returns_none ==
    (suggestion.timed_out /\ current_depth = 1)
        => /\ suggestion.kind = "return"
           /\ suggestion.move = NoMove
           /\ pc = "exit"

\* C3: where the search runs, under the heuristic and to the depth of the
\* options (every heuristic selector and every depth within the bounds, over
\* the games played), with no time cutoff, alpha_beta over the full window
\* and minimax return the same score, whichever side maximizes.
C3_same_score ==
    (pc = "turn" /\ ~IsHumanTurn)
        => \A maximizing \in BOOLEAN :
              alpha_beta(options, self, options.max_depth,
                         MIN_HEURISTIC_SCORE, MAX_HEURISTIC_SCORE, maximizing,
                         FreeSt(options.max_depth)).score
              = minimax(options, self, options.max_depth, maximizing,
                        FreeSt(options.max_depth)).score

\* a position of a computer player where alpha_beta prunes: at depth 2 it
\* evaluates fewer leaves than minimax
C3_witness ==
    /\ pc = "turn"
    /\ ~IsHumanTurn
    /\ alpha_beta(options, self, 2, MIN_HEURISTIC_SCORE, MAX_HEURISTIC_SCORE,
                  next_player = Attacker, FreeSt(2)).st.stats.evaluations_per_depth[2]
       < minimax(options, self, 2, next_player = Attacker,
                 FreeSt(2)).st.stats.evaluations_per_depth[2]

\* a turn starts: no action of it was rejected yet
TurnStarts == pc = "turn" /\ (steps = 0 \/ last_result.success)

\* C4: in every position where a turn starts, is_valid_move(src, dst) is true
\* only if dst is one of the 4 cells next to src, dst is empty, src holds a
\* unit of next_player and, for an AI, a Firewall or a Program, none of the 4
\* cells next to src holds a unit of the other player.
C4_valid_move_implies ==
    TurnStarts
        => \A src \in Cells : \A dst \in Cells :
              is_valid_move(self, CoordPair(src, dst))
                  => /\ Orthogonal(src, dst)
                     /\ board[dst] = NoUnit
                     /\ board[src] # NoUnit
                     /\ board[src].player = next_player
                     /\ board[src].type \in {AI, Firewall, Program}
                            => \A c \in Cells :
                                  Orthogonal(src, c)
                                      => \/ board[c] = NoUnit
                                         \/ board[c].player = next_player

\* a move of an AI, a Firewall or a Program was accepted
C4_witness ==
    /\ last_result.success
    /\ last_result.kind = "move"
    /\ board[last_result.dst] # NoUnit
    /\ board[last_result.dst].type \in {AI, Firewall, Program}

\* C5: when the action read matches none of move, attack, repair and
\* self-destruct, perform_move returns success = false and the board with
\* every unit's health, next_player, turns_played and both has-AI flags stay
\* as they were.
C5_failure_changes_nothing ==
    [][(/\ pc = "turn"
        /\ IsHumanTurn
        /\ steps' = steps + 1
        /\ \E mv \in {CoordPair(last_result'.src, last_result'.dst)} :
              /\ ~is_valid_move(self, mv)
              /\ ~is_valid_attack(self, mv)
              /\ ~is_valid_repair(self, mv)
              /\ ~can_self_destruct(self, mv))
        => /\ ~last_result'.success
           /\ board' = board
           /\ next_player' = next_player
           /\ turns_played' = turns_played
           /\ attacker_has_ai' = attacker_has_ai
           /\ defender_has_ai' = defender_has_ai]_vars

\* an action from a cell that holds a unit of the player to move was rejected
C5_witness ==
    /\ steps = 1
    /\ ~last_result.success
    /\ last_result.kind = "invalid"
    /\ board[last_result.src] # NoUnit
    /\ board[last_result.src].player = next_player

\* C6: an accepted attack of the unit S at src on the unit T at dst takes
\* S.damage_amount(T) from the health of T and T.damage_amount(S) from the
\* health of S, both amounts from the units as they were before the attack;
\* S and T each leave the board iff no health is left, and no other cell
\* changes.
C6_attack_effect ==
    [][(AcceptedStep /\ last_result'.kind = "attack")
        => \E src \in {last_result'.src} : \E dst \in {last_result'.dst} :
              board' = [c \in Cells |->
                          IF c = src
                          THEN Damaged(board[src], damage_amount(board[dst], board[src]))
                          ELSE IF c = dst
                          THEN Damaged(board[dst], damage_amount(board[src], board[dst]))
                          ELSE board[c]]]_vars

\* an attack was accepted after which neither of the two units is on the board
C6_witness ==
    /\ last_result.success
    /\ last_result.kind = "attack"
    /\ board[last_result.src] = NoUnit
    /\ board[last_result.dst] = NoUnit

\* C7: an accepted self-destruct at src removes the unit at src and takes 2
\* (no further than 0) from the health of every unit, of either player, in
\* the cells of the board around src, diagonals included; the units left with
\* no health are removed, and the cells outside this neighbourhood do not
\* change.
C7_self_destruct_effect ==
    [][(AcceptedStep /\ last_result'.kind = "self-destruct")
        => \E src \in {last_result'.src} :
              board' = [c \in Cells |->
                          IF c = src THEN NoUnit
                          ELSE IF Around(src, c) THEN Damaged(board[c], 2)
                          ELSE board[c]]]_vars

\* in the skirmish a unit self-destructed and took at least one of the units
\* around it off the board
C7_witness ==
    /\ last_result.success
    /\ last_result.kind = "self-destruct"
    /\ turns_played = Len(OpeningSkirmish) + 1
    /\ Cardinality(Occupied) < 6

\* C8: an accepted repair from src to dst adds repair_amount(source, target)
\* to the health of the target, an amount that is more than 0 and leaves the
\* target with a health of at most 9; the source and every other cell do not
\* change.
C8_repair_effect ==
    [][(AcceptedStep /\ last_result'.kind = "repair")
        => \E src \in {last_result'.src} : \E dst \in {last_result'.dst} :
           \E amount \in {repair_amount(board[src], board[dst])} :
              /\ amount > 0
              /\ board[dst].health + amount <= 9
              /\ board' = [board EXCEPT ![dst].health = board[dst].health + amount]]_vars

\* a repair of a Program was accepted and left it with a health of 9
C8_witness ==
    /\ last_result.success
    /\ last_result.kind = "repair"
    /\ board[last_result.dst].type = Program
    /\ board[last_result.dst].health = 9

\* the winner that the case table gives for the flags and the turn counter
WinnerTable ==
    IF turns_played >= max_turns THEN Defender
    ELSE IF ~attacker_has_ai THEN Defender
    ELSE IF ~defender_has_ai THEN Attacker
    ELSE "None"

\* C9: has_winner returns Defender whenever turns_played >= max_turns,
\* whichever AIs are alive; otherwise Defender if the Attacker's AI is dead,
\* Attacker if only the Defender's AI is dead, and no winner if both AIs are
\* alive; and this is the winner main goes by.
C9_winner_table ==
    /\ has_winner(self) = WinnerTable
    /\ pc \in {"turn", "done"} => winner = WinnerTable

\* the game ended at the turn limit with only the Defender's AI dead, and the
\* Defender won
C9_witness ==
    /\ pc = "done"
    /\ turns_played >= max_turns
    /\ attacker_has_ai
    /\ ~defender_has_ai
    /\ winner = Defender

\* a living AI of the player is on the board of g
HasLivingAI(g, player) ==
    \E c \in Cells :
        /\ g.board[c] # NoUnit
        /\ g.board[c].player = player
        /\ g.board[c].type = AI
        /\ g.board[c].health > 0

FlagsMatch(g) ==
    /\ g.attacker_has_ai <=> HasLivingAI(g, Attacker)
    /\ g.defender_has_ai <=> HasLivingAI(g, Defender)

\* C10: in the game, and in every successor that get_children makes of it,
\* each has-AI flag is true iff a living AI of that side is on the board; and
\* a flag that is false stays false.
C10_flags ==
    /\ [](/\ FlagsMatch(self)
          /\ \A child \in SeqToSet(get_children(self)) : FlagsMatch(child.game))
    /\ [][/\ ~attacker_has_ai => ~attacker_has_ai'
          /\ ~defender_has_ai => ~defender_has_ai']_vars

\* an attack took the Defender's AI, and only it, off the board
C10_witness ==
    /\ last_result.success
    /\ last_result.kind = "attack"
    /\ ~defender_has_ai
    /\ attacker_has_ai
    /\ ~HasLivingAI(self, Defender)

\* every unit on the board of g has a health from 1 to 9
HealthInRange(g) ==
    \A c \in Cells : g.board[c] # NoUnit => g.board[c].health \in 1..9

\* C11: in the game, and in every successor that get_children makes of it,
\* every unit on the board has a health from 1 to 9: no health leaves
\* [0, 9], and a unit with no health left is off the board when perform_move
\* returns.
C11_health_in_range ==
    /\ HealthInRange(self)
    /\ TurnStarts =>
           \A child \in SeqToSet(get_children(self)) : HealthInRange(child.game)

\* a self-destruct left a damaged unit next to it and took another unit, next
\* to it too, off the board
C11_witness ==
    /\ last_result.success
    /\ last_result.kind = "self-destruct"
    /\ turns_played = Len(OpeningSkirmish) + 1
    /\ Cardinality(Occupied) < 6
    /\ \E c \in Occupied : Around(last_result.src, c) /\ board[c].health < 9
\* the smaller of two numbers
Min(a, b) == IF a <= b THEN a ELSE b

\* C12: for every two unit types and every health h from 0 to 9 of the target,
\* damage_amount returns the smaller of the entry of the damage table and h,
\* repair_amount returns the smaller of the entry of the repair table and
\* 9 - h, and neither is negative.
C12_amounts ==
    ret.done /\ call.op \in {"damage_amount", "repair_amount"} =>
        LET a == TypeValue(call.unit.type) + 1
            t == TypeValue(call.target.type) + 1
            h == call.target.health
        IN  /\ call.op = "damage_amount" => ret.value = Min(damage_table[a][t], h)
            /\ call.op = "repair_amount" => ret.value = Min(repair_table[a][t], 9 - h)
            /\ ret.value >= 0

C12_witness ==
    /\ ret.done
    /\ call.op = "damage_amount"
    /\ call.unit.type = Virus
    /\ call.target.type = AI
    /\ call.target.health = 4
    /\ ret.value = 4
\* the two steps of Attacker's AI from its corner toward the interior
AICornerSteps == {Mv(dim - 1, dim - 1, dim - 2, dim - 1), Mv(dim - 1, dim - 1, dim - 1, dim - 2)}

\* perform_move(call.coords) was called on the starting position
StartCalled == ret.done /\ call.op = "perform_move" /\ call.game = post_init

\* the call was carried out as a move: the unit of the source cell is on the
\* destination cell, the source cell is empty, every other cell and the
\* has-AI flags are as before, and so are turns_played and next_player
MovedAsCalled ==
    LET g == call.game
        after == ret.value.game
        src == call.coords.src
        dst == call.coords.dst
    IN  /\ ret.value.result.success
        /\ ret.value.result.kind = "move"
        /\ after.board[dst] = g.board[src]
        /\ after.board[src] = NoUnit
        /\ \A c \in Cells \ {src, dst} : after.board[c] = g.board[c]
        /\ after.turns_played = g.turns_played
        /\ after.next_player = g.next_player
        /\ after.attacker_has_ai = g.attacker_has_ai
        /\ after.defender_has_ai = g.defender_has_ai

\* C13 as stated: in the starting position with Attacker to move, a step of
\* Attacker's AI from its corner to an orthogonally adjacent cell toward the
\* interior is accepted by perform_move as a move, the AI ends on the
\* destination, the source is empty, turns_played and next_player unchanged.
C13_ai_step_accepted ==
    StartCalled /\ call.coords \in AICornerSteps => MovedAsCalled

\* C13 amended: in the starting position both cells next to Attacker's AI
\* toward the interior hold Attacker's Viruses, so perform_move rejects either
\* step of the AI and leaves the game as it was; a step the starting position
\* does allow (is_valid_move holds) is carried out as a move: the unit ends on
\* the destination, the source is empty, turns_played and next_player are
\* unchanged by perform_move.
C13_ai_step_rejected ==
    StartCalled =>
        /\ call.coords \in AICornerSteps =>
               /\ call.game.board[call.coords.src] = Unit(Attacker, AI, 9)
               /\ call.game.board[call.coords.dst] = Unit(Attacker, Virus, 9)
               /\ ~ret.value.result.success
               /\ ret.value.game = call.game
        /\ is_valid_move(call.game, call.coords) => MovedAsCalled

C13_witness ==
    /\ StartCalled
    /\ call.coords = Mv(dim - 1, dim - 1, dim - 2, dim - 1)
    /\ ret.value.result.kind = "invalid"
\* perform_move(call.coords) was called and carried out an attack on an AI
AttackedAI ==
    /\ ret.done
    /\ call.op = "perform_move"
    /\ ret.value.result.kind = "attack"
    /\ call.game.board[call.coords.dst].type = AI

\* player's has-AI flag in game g
HasAIFlag(g, player) ==
    IF player = Attacker THEN g.attacker_has_ai ELSE g.defender_has_ai

\* C14: whenever a unit attacks an adjacent enemy AI with damage_amount at
\* least the AI's health (always so for a Virus), after perform_move the AI's
\* cell is empty, its owner's has-AI flag is false, and has_winner on the
\* resulting game returns a winner.
C14_ai_killed ==
    AttackedAI =>
        LET g == call.game
            after == ret.value.game
            unit == g.board[call.coords.src]
            ai == g.board[call.coords.dst]
        IN  /\ unit.type = Virus => damage_amount(unit, ai) >= ai.health
            /\ damage_amount(unit, ai) >= ai.health =>
                   /\ Orthogonal(call.coords.src, call.coords.dst)
                   /\ ai.player # unit.player
                   /\ HasAIFlag(g, ai.player)
                   /\ after.board[call.coords.dst] = NoUnit
                   /\ ~HasAIFlag(after, ai.player)
                   /\ has_winner(after) \in Player

C14_witness ==
    /\ AttackedAI
    /\ call.game.board[call.coords.src] = Unit(Attacker, Virus, 5)
    /\ call.game.board[call.coords.dst] = Unit(Defender, AI, 3)
    /\ ret.value.game.board[call.coords.dst] = NoUnit
    /\ has_winner(ret.value.game) = Attacker
\* the state of the statistics and of the search when a recursive search is
\* called on the game as it stands, with a clock that does not run out
HereSt ==
    [stats |-> stats, is_time_out |-> is_time_out, current_depth |-> current_depth,
     clock |-> Never]

\* the evaluations counted for depth k in statistics s (0 when there is no
\* entry for k)
Evaluations(s, k) ==
    IF k \in DOMAIN s.evaluations_per_depth THEN s.evaluations_per_depth[k] ELSE 0

\* result r of a search called with remaining depth 0 is the score of the
\* game under the active heuristic and no action, with one more evaluation
\* counted for depth 0 and the counts of the other depths as they were
CountedAtDepth0(r) ==
    /\ r.score = e(self, options)
    /\ r.move = NoMove
    /\ ~r.st.is_time_out
    /\ Evaluations(r.st.stats, 0) = Evaluations(stats, 0) + 1
    /\ \A k \in 1..(MaxDepth + 1) : Evaluations(r.st.stats, k) = Evaluations(stats, k)

\* C15: a call of alpha_beta or of minimax with remaining depth 0 on a terminal
\* state, with no timeout, returns the score of the state under the active
\* heuristic and no action, and adds exactly one to the evaluations counted
\* for depth 0, leaving the counts of the other depths unchanged, whatever
\* searches ran before on the same game.
C15_counted_at_depth_0 ==
    pc = "done" =>
        /\ CountedAtDepth0(alpha_beta(options, self, 0, MIN_HEURISTIC_SCORE,
                                      MAX_HEURISTIC_SCORE, next_player = Attacker,
                                      HereSt))
        /\ CountedAtDepth0(minimax(options, self, 0, next_player = Attacker, HereSt))
\* C16: e returns the value of e0 whenever the selector of the options is none
\* of 0, 1, 2; on the initial board such a selector yields 0.
C16_out_of_range_is_e0 ==
    ret.done /\ call.op = "e" /\ call.options.heuristic \notin {0, 1, 2} =>
        /\ ret.value = e0(call.game)
        /\ call.game = post_init => ret.value = 0

C16_witness ==
    /\ ret.done
    /\ call.op = "e"
    /\ call.options.heuristic = MaxHeuristic
    /\ call.game # post_init
    /\ ret.value # 0
    /\ ret.value # e1(call.game)
\* coord has a row in [0, 26) and a column in [0, 16)
HasText(coord) ==
    /\ coord.row \in 0..(Len(RowChars) - 1)
    /\ coord.col \in 0..(Len(ColChars) - 1)

\* C17: for every coordinate with a row in [0, 26) and a column in [0, 16),
\* Coord.from_string(coord.to_string()) is the coordinate, and for every pair
\* of such coordinates CoordPair.from_string(pair.to_string()) is the pair.
C17_round_trip ==
    /\ ret.done /\ call.op = "Coord.from_string" /\ HasText(call.coord) =>
           ret.value.parsed = Some(call.coord)
    /\ ret.done /\ call.op = "CoordPair.from_string"
          /\ HasText(call.coords.src) /\ HasText(call.coords.dst) =>
           ret.value.parsed = Some(call.coords)

C17_witness ==
    /\ ret.done
    /\ call.op = "CoordPair.from_string"
    /\ call.coords = Mv(Len(RowChars) - 1, Len(ColChars) - 1, 4, 10)
    /\ ret.value.text = <<"Z", "f", " ", "E", "a">>
    /\ ret.value.parsed = Some(call.coords)
\* one pass of human_turn's loop in broker play
PollStep == pc = "turn" /\ options.broker /\ IsHumanTurn /\ steps' = steps + 1

\* the broker holds data for the turn that is to be played
HoldsNextTurn == broker # None /\ broker[1].turn = turns_played + 1

\* C18: in broker play the response to a poll is applied to the game only if
\* its data.turn is turns_played + 1 (and then as perform_move and next_turn
\* apply the move it holds); a response with another turn value or without
\* data, or a failed request, changes none of the board, next_player and
\* turns_played, so a move the broker still holds after it was applied is not
\* applied again.
C18_applies_next_turn_only ==
    [][PollStep =>
          /\ polled'.applied =>
                 /\ polled'.ok
                 /\ HoldsNextTurn
                 /\ polled'.data = broker
                 /\ \E r \in {perform_move(self, CoordPair(broker[1].from, broker[1].to))} :
                        /\ r.result.success
                        /\ last_result' = r.result
                        /\ board' = r.game.board
                        /\ attacker_has_ai' = r.game.attacker_has_ai
                        /\ defender_has_ai' = r.game.defender_has_ai
                 /\ turns_played' = turns_played + 1
                 /\ next_player' = PlayerNext(next_player)
          /\ ~polled'.applied => UNCHANGED gamevars
          /\ ~HoldsNextTurn \/ ~polled'.ok => ~polled'.applied
          /\ broker # None /\ last_result.success /\ broker[1].turn = last_result.turn
                => ~polled'.applied]_vars

C18_witness ==
    /\ options.broker
    /\ polled.ok
    /\ ~polled.applied
    /\ polled.data # None
    /\ last_result.success
    /\ last_result.kind = "move"
    /\ polled.data = Some([from |-> last_result.src, to |-> last_result.dst,
                            turn |-> last_result.turn])
    /\ turns_played = last_result.turn
\* perform_move(call.coords) was called with a source or a destination that
\* is not a cell of the board
OffBoardCalled ==
    /\ ret.done
    /\ call.op = "perform_move"
    /\ call.coords.src \notin Cells \/ call.coords.dst \notin Cells

Around1(src) == {src} \cup SeqToSet(iter_adjacent(src))

\* the pairs (src, dst) with a unit of the player to move on src and dst one of
\* the four cells next to src or src itself that perform_move accepts on g
AcceptedPairs(g) ==
    {mv \in UNION {{CoordPair(src, dst) : dst \in Around1(src)} : src \in Cells} :
        /\ g.board[mv.src] # NoUnit
        /\ g.board[mv.src].player = g.next_player
        /\ perform_move(g, mv).result.success}

\* children, as a caller of get_children(g) has collected them, are the
\* accepted pairs, each once and with the game it leads to, a turn later and
\* with the other player to move
ChildrenOf(g, children) ==
    /\ {children[k].move : k \in 1..Len(children)} = AcceptedPairs(g)
    /\ Len(children) = Cardinality(AcceptedPairs(g))
    /\ \A k \in 1..Len(children) :
           /\ children[k].game = next_turn(perform_move(g, children[k].move).game)
           /\ children[k].game.next_player = PlayerNext(g.next_player)
           /\ children[k].game.turns_played = g.turns_played + 1

StepsFrom(src) ==
    {CoordPair(src, dst) : dst \in {c \in Cells : Orthogonal(src, c)}}

\* C21: an AI, a Firewall or a Program of Attacker never moves to a cell with
\* a larger row or a larger column, and one of Defender never to a cell with
\* a smaller row or a smaller column; a Tech or a Virus of the player to move
\* can move to any empty cell next to it, in all four directions, an enemy
\* next to it or not.
C21_directions ==
    /\ [][AcceptedStep /\ last_result'.kind = "move" =>
             \E src \in {last_result'.src} : \E dst \in {last_result'.dst} :
                /\ board[src].player = Attacker /\ board[src].type \in LockedTypes
                      => dst.row <= src.row /\ dst.col <= src.col
                /\ board[src].player = Defender /\ board[src].type \in LockedTypes
                      => dst.row >= src.row /\ dst.col >= src.col]_vars
    /\ [](TurnStarts =>
             \A src \in Occupied : \A mv \in StepsFrom(src) :
                /\ board[src].player = next_player
                /\ board[src].type \in {Tech, Virus}
                /\ board[mv.dst] = NoUnit
                => is_valid_move(self, mv))

\* Attacker's Virus moved down, away from an enemy unit that was next to it
C21_witness ==
    /\ last_result.success
    /\ last_result.kind = "move"
    /\ last_result.dst.row > last_result.src.row
    /\ board[last_result.dst] # NoUnit
    /\ board[last_result.dst].player = Attacker
    /\ board[last_result.dst].type = Virus
    /\ \E c \in Occupied : Orthogonal(last_result.src, c) /\ board[c].player = Defender
\* the evaluations counted in statistics s, over all depths
EvaluationsCounted(s) ==
    SumSeq([k \in 1..(MaxDepth + 2) |-> Evaluations(s, k - 1)], 1)

\* result r of a search that started with fresh statistics and a clock of
\* `budget` time checks: every call that did not cut off updated the branching
\* statistics once, and the branch counts add up to the successors explored
\* (every call but the root's is the exploration of one successor)
BranchingCounted(r, budget) ==
    LET s     == r.st.stats
        calls == budget - r.st.clock
        nodes == calls - EvaluationsCounted(s)
    IN  /\ s.average_branching_size = nodes
        /\ s.average_branching_factor.num * nodes
              = (calls - 1) * s.average_branching_factor.den

\* C22: every branching node of alpha_beta and of minimax that finishes
\* without timeout updates the branching statistics exactly once, with the
\* number of successors explored at that node; cutoff leaves do not update it.
C22_branching ==
    TurnStarts /\ ~IsHumanTurn =>
        LET searched(r) == ~r.st.is_time_out => BranchingCounted(r, 1000)
        IN  searched(search(options.alpha_beta, options, self, options.max_depth,
                            [FreeSt(options.max_depth) EXCEPT !.clock = 1000]))
\* the cutoff nodes (remaining depth 0 or terminal state) at ply k of the tree
\* of depth `depth` under game g
RECURSIVE CutoffNodes(_, _, _)
CutoffNodes(g, depth, k) ==
    IF depth = 0 \/ is_finished(g)
    THEN IF k = 0 THEN 1 ELSE 0
    ELSE IF k = 0
    THEN 0
    ELSE LET children == get_children(g)
         IN  SumSeq([i \in 1..Len(children) |->
                        CutoffNodes(children[i].game, depth - 1, k - 1)], 1)

\* C23: during a search each cutoff node records exactly one evaluation, under
\* the ply of that node: minimax, which visits the whole tree, counts at every
\* ply the cutoff nodes of that ply, and alpha_beta counts at no ply more than
\* the cutoff nodes of that ply (a terminal node at ply k of a deeper
\* iteration is counted at k).
C23_counted_at_ply ==
    TurnStarts /\ ~IsHumanTurn =>
        LET searched(r) ==
                ~r.st.is_time_out =>
                    \A k \in 0..(MaxDepth + 1) :
                        IF options.alpha_beta
                        THEN Evaluations(r.st.stats, k)
                               <= CutoffNodes(self, options.max_depth, k)
                        ELSE Evaluations(r.st.stats, k)
                               = CutoffNodes(self, options.max_depth, k)
        IN  searched(search(options.alpha_beta, options, self, options.max_depth,
                            FreeSt(options.max_depth)))
\* game g with the other player to move
OtherToMove(g) == [g EXCEPT !.next_player = PlayerNext(g.next_player)]

\* C24: in e2 the danger penalty of a unit counts the neighbouring units of
\* its opponent and the screening and repair bonuses those of its own player,
\* hence e2 of a board does not depend on which player is next to move.
C24_e2_ignores_next_player ==
    ret.done /\ call.op = "e" /\ call.options.heuristic = 2 =>
        ret.value = e(OtherToMove(call.game), call.options)
StoppedAtTimeout(r, c, d) ==
    LET counted == EvaluationsCounted(r.st.stats) + r.st.stats.average_branching_size
    IN  /\ r.score = 0
        /\ r.move = NoMove
        /\ r.st.clock = 0
        /\ IF c = 0 THEN counted = 0 ELSE counted \in (c - d)..(c - 1)

\* C26: once a recursive call detects the timeout every enclosing call returns
\* immediately: no further successor is expanded, no further evaluation is
\* counted, no branching update is made, and the driver sees is_time_out set
\* for that depth; the timeout is detected exactly when the search needs more
\* time checks than the clock grants.
C26_stops_at_timeout ==
    pc = "turn" /\ steps = 0 /\ ~IsHumanTurn =>
        LET d == options.max_depth
            run(c) == search(options.alpha_beta, options, self, d,
                             [FreeSt(d) EXCEPT !.clock = c])
            free(whole) ==
                \A c \in 0..MaxClock :
                    LET stopped(r) ==
                            /\ r.st.is_time_out <=> c < 100000 - whole.st.clock
                            /\ r.st.is_time_out => StoppedAtTimeout(r, c, d)
                    IN  stopped(run(c))
        IN  free(run(100000))

\* a computer turn whose search ran out of time in its second depth, after
\* evaluations were counted in that depth
C26_witness ==
    /\ pc = "check"
    /\ steps = 1
    /\ suggestion.timed_out
    /\ current_depth = MaxDepth
    /\ Evaluations(stats, MaxDepth) > 0
    /\ ~is_time_out
\* C27: on a state without a winner, with max_depth >= 1 and no timeout,
\* suggest_move returns what the iteration of depth max_depth returned; the
\* action is not None, its source holds a unit of next_player, and
\* perform_move accepts it on the current state, so that computer_turn
\* advances the turn.
C27_returns_playable ==
    [][ComputerStep /\ ~suggestion'.timed_out =>
         /\ suggestion'.kind = "return"
         /\ suggestion'.move # NoMove
         /\ is_valid_coord(suggestion'.move.src)
         /\ board[suggestion'.move.src] # NoUnit
         /\ board[suggestion'.move.src].player = next_player
         /\ perform_move(self, suggestion'.move).result.success
         /\ last_result'.success
         /\ turns_played' = turns_played + 1
         /\ next_player' = PlayerNext(next_player)
         /\ current_depth' = options.max_depth
         /\ LET deepest(r) == /\ suggestion'.score = r.score
                               /\ suggestion'.move = r.move
            IN  deepest(search(options.alpha_beta, options, self, options.max_depth,
                               FreeSt(options.max_depth)))]_vars

\* minimax searched to the deepest level without timeout and the step it
\* returned was played
C27_witness ==
    /\ pc = "check"
    /\ steps = 1
    /\ ~options.alpha_beta
    /\ options.max_depth = MaxDepth
    /\ current_depth = MaxDepth
    /\ suggestion.kind = "return"
    /\ ~suggestion.timed_out
    /\ last_result.success
    /\ last_result.src = suggestion.move.src
    /\ last_result.dst = suggestion.move.dst
    /\ turns_played < max_turns
\* C28: every accepted perform_move, be it a move, an attack, a repair or a
\* self-destruct, acts with a source unit of next_player: a player never
\* attacks with, repairs with or self-destructs a unit of the opponent.
C28_source_owned ==
    [][AcceptedStep =>
         /\ is_valid_coord(last_result'.src)
         /\ board[last_result'.src] # NoUnit
         /\ board[last_result'.src].player = next_player]_vars
\* game g, if it has no winner, has a successor in get_children, the
\* self-destruct of the AI of the side to move among them
HasChild(g) ==
    ~is_finished(g) =>
        LET found(children) ==
                /\ Len(children) > 0
                /\ \E k \in 1..Len(children) :
                      /\ children[k].move.src = children[k].move.dst
                      /\ get(g, children[k].move.src).type = AI
                      /\ get(g, children[k].move.src).player = g.next_player
        IN  found(get_children(g))

\* C29: every state of the game without a winner has a successor in
\* get_children, the side to move owning at least its AI, which can
\* self-destruct; so has every successor the search makes of it: the search
\* meets no node without a winner and without successors.
C29_has_child ==
    TurnStarts =>
        /\ HasChild(self)
        /\ LET nodes(children) == \A k \in 1..Len(children) : HasChild(children[k].game)
           IN  nodes(get_children(self))

\* no winner, and the side to move owns nothing but its AI
C29_witness ==
    /\ TurnStarts
    /\ steps = 1
    /\ ~is_finished(self)
    /\ Len(player_units(self, next_player)) = 1
    /\ board[player_units(self, next_player)[1]].type = AI
\* perform_move on g with its four tests in the opposite order, given what the
\* tests say of coords
perform_move_reversed(g, coords, move, attack, repair, destruct) ==
    IF destruct
    THEN [game |-> do_self_destruct(g, coords),
          result |-> Result(g, TRUE, "self-destruct", coords)]
    ELSE IF repair
    THEN [game |-> do_repair(g, coords), result |-> Result(g, TRUE, "repair", coords)]
    ELSE IF attack
    THEN [game |-> do_attack(g, coords), result |-> Result(g, TRUE, "attack", coords)]
    ELSE IF move
    THEN [game |-> do_move(g, coords), result |-> Result(g, TRUE, "move", coords)]
    ELSE perform_move(g, coords)

\* at most one of the four tests holds of coords on g, and perform_move does
\* what it would do with the tests in the opposite order
OneKind(g, coords, move, attack, repair, destruct) ==
    /\ ~(move /\ attack) /\ ~(move /\ repair) /\ ~(move /\ destruct)
    /\ ~(attack /\ repair) /\ ~(attack /\ destruct)
    /\ ~(repair /\ destruct)
    /\ move \/ attack \/ repair \/ destruct =>
          perform_move(g, coords)
            = perform_move_reversed(g, coords, move, attack, repair, destruct)

\* C30: in every state of the game and for every pair (src, dst) at most one
\* of is_valid_move, is_valid_attack, is_valid_repair and can_self_destruct
\* holds, so that what perform_move does is independent of the order in which
\* it tests them.
C30_one_kind ==
    TurnStarts =>
        \A src \in Cells : \A dst \in Cells \cup SeqToSet(iter_adjacent(src)) :
            OneKind(self, CoordPair(src, dst),
                    is_valid_move(self, CoordPair(src, dst)),
                    is_valid_attack(self, CoordPair(src, dst)),
                    is_valid_repair(self, CoordPair(src, dst)),
                    can_self_destruct(self, CoordPair(src, dst)))

\* a turn was played and each of the four tests holds of some pair
C30_witness ==
    /\ TurnStarts
    /\ steps = 1
    /\ \E src \in Occupied : \E mv \in StepsFrom(src) : is_valid_move(self, mv)
    /\ \E src \in Occupied : \E mv \in StepsFrom(src) : is_valid_attack(self, mv)
    /\ \E src \in Occupied : \E mv \in StepsFrom(src) : is_valid_repair(self, mv)
    /\ \E src \in Occupied : can_self_destruct(self, CoordPair(src, src))
\* every turn eventually produces a successful action, which takes the loop
\* back to its top
TurnsSucceed == (pc = "turn") ~> (pc = "check")

EvenIsAttacker(g) == g.next_player = Attacker <=> g.turns_played % 2 = 0

\* C32: in every state the turn drivers reach (human_turn, computer_turn, and
\* the successors get_children makes) next_player is Attacker iff
\* turns_played is even; each successful turn flips next_player and adds
\* exactly 1 to turns_played, a refused one changes neither, and perform_move
\* alone changes neither.
C32_turn_parity ==
    /\ [](EvenIsAttacker(self))
    /\ [](TurnStarts =>
             /\ LET even(children) ==
                        \A k \in 1..Len(children) :
                            /\ EvenIsAttacker(children[k].game)
                            /\ children[k].game.turns_played = turns_played + 1
                IN  even(get_children(self))
             /\ \A src \in Occupied : \A mv \in StepsFrom(src) \cup {CoordPair(src, src)} :
                    LET alone(r) == /\ r.game.next_player = next_player
                                    /\ r.game.turns_played = turns_played
                    IN  alone(perform_move(self, mv)))
    /\ [][pc = "turn" /\ steps' = steps + 1 =>
             IF last_result'.success /\ pc' = "check"
             THEN /\ next_player' = PlayerNext(next_player)
                  /\ turns_played' = turns_played + 1
             ELSE /\ next_player' = next_player
                  /\ turns_played' = turns_played]_vars

\* the computer played Defender's turn and Attacker is to move again
C32_witness ==
    /\ pc = "check"
    /\ steps = 1
    /\ suggestion.kind = "return"
    /\ last_result.success
    /\ last_result.player = Defender
    /\ next_player = Attacker
    /\ turns_played % 2 = 0
    /\ turns_played = last_result.turn

====
